---------------------------- MODULE Spec2Model ----------------------------
(***************************************************************************)
(* SoloTranscribe batch orchestration: the job/manifest state machine of   *)
(* TranscriptionProcessor (core/processor.py), the manifest aggregates     *)
(* (models.py) and their persistence (core/manifest.py).                   *)
(*                                                                         *)
(* Money is counted in units of 0.00001 USD, so that the per-second rates  *)
(* of the adapters (0.00037 and 0.001 USD) and the base conversion cost    *)
(* (0.01 USD) are integers.  Optional values are <<>> (None) or <<v>>.     *)
(* Time is a logical clock that advances once per pipeline attempt; every  *)
(* datetime.utcnow() read during an attempt returns the attempt's tick.    *)
(***************************************************************************)
EXTENDS Integers, Sequences, FiniteSets, TLC

VARIABLES manifest, saved, run, pc, todo, cur, budget, clock, attempts,
          opts, disk, meta, arg, result

\* the state of the orchestrator
\* opts: the ProcessingOptions of the run; disk: the temporary files that exist;
\* meta: per job, the status written in its meta.json, None while there is none
vars == <<manifest, saved, run, pc, todo, cur, budget, clock, attempts,
          opts, disk, meta>>

\* argument and result of a pure function under study (input parsing, caption
\* grouping); the orchestrator leaves them alone
pure == <<arg, result>>

allvars == <<vars, pure>>

-----------------------------------------------------------------------------
(* Bounds of the exploration                                               *)

\* longest URL list handed to process_batch
MaxJobs == 3

\* most lines of a plain-text input file
MaxLines == 3

\* most words of a transcript handed to the caption formatters
MaxWordCount == 11

\* start of the first word of a transcript
FirstStarts == {0, 1}

\* durations of a word: none, half the maximum segment duration, more than it
WordLengths == {0, 4, 9}

\* retry_failed_jobs is explored on manifests of at most this many jobs
MaxRetryJobs == 2

\* the pure functions of formatting are explored on at most this many formats
MaxFormats == 3

\* input files of both kinds are explored with at most this many lines or rows
MaxInputLines == 2

\* estimate_batch is explored on at most this many URLs
MaxUrls == 7

\* video durations (seconds) a successful metadata probe may report
Durations == {723}

\* durations (seconds) the time estimate is explored on
TimeDurations == {1, 30, 60, 120, 150, 151, 300, 723, 1800, 3600}

\* durations (seconds) the info of extract_info("") may hold
InfoDurations == {0, 10, 150, 151, 600}

\* options.budget_cap values of a batch run: 0, 0.01 USD, 0.30 USD
BatchBudgets == {0, 1000, 30000}

\* budget_cap arguments of retry_failed_jobs: none, 0.1744 USD
RetryBudgets == {<<>>, <<17440>>}

-----------------------------------------------------------------------------
(* Program constants                                                       *)

\* config.retry_limit (RETRY_LIMIT, default 3)
RetryLimit == 3

\* config.cap_budget_usd (CAP_BUDGET_USD, 20 USD)
CapBudgetUsd == 2000000

\* AssemblyAIAPI.estimate_transcription_cost: cost_per_second = 0.00037
CostPerSecond == 37

\* FreeConvertAPI.estimate_conversion_cost: base_cost = 0.01
BaseCost == 1000

\* FreeConvertAPI.estimate_conversion_cost: 0.001 per second
DurationCostPerSecond == 100

\* _process_single_job: "metadata.duration or 120"
DefaultDuration == 120

\* estimate_batch probes at most this many URLs
SampleSize == 5

\* estimate_download_time: info.get('duration', 60)
DefaultInfoDuration == 60

\* estimate_download_time: "return 60.0", and "or 60" in _estimate_job_time
DefaultDownloadTime == 60

\* estimate_download_time: min(duration * 2, 300)
DownloadTimeCap == 300

\* estimate_conversion_time: 30 + file_size_mb
ConversionBaseTime == 30

\* estimate_transcription_time: buffer_time = 30
TranscriptionBufferTime == 30

\* _estimate_job_time: buffer_time = 30
JobBufferTime == 30

\* wait_for_transcription: time.sleep(15) while the remote is not finished
PollInterval == 15

\* wait_for_transcription: time.sleep(20) after a poll that raised
ErrorInterval == 20

\* wait_for_transcription: max_wait_time: int = 1800
DefaultMaxWaitTime == 1800

\* the max_wait_time values wait_for_transcription is explored on
WaitTimes == {0, 60, DefaultMaxWaitTime}

\* _group_words_into_segments: max_duration = 8.0 (SRT and VTT)
MaxDuration == 8

\* SRTFormatter._group_words_into_segments: max_words = 10
MaxWords == 10

-----------------------------------------------------------------------------
(* Optional values and Python truthiness                                   *)

None == <<>>

Some(x) == <<x>>

\* truthiness of an Optional[float]: None and 0 are falsy
Truthy(x) == x # None /\ x[1] # 0

\* "x or d" on an Optional[float]
OrElse(x, d) == IF Truthy(x) THEN x[1] ELSE d

-----------------------------------------------------------------------------
(* models.py                                                               *)

PENDING == "pending"
DOWNLOADING == "downloading"
CONVERTING == "converting"
TRANSCRIBING == "transcribing"
FORMATTING == "formatting"
COMPLETED == "completed"
FAILED == "failed"
SKIPPED == "skipped"

JobStatus ==
    {PENDING, DOWNLOADING, CONVERTING, TRANSCRIBING, FORMATTING, COMPLETED, FAILED, SKIPPED}

INVALID_URL == "invalid_url"
ACCESS_DENIED == "access_denied"
DOWNLOAD_FAILED == "download_failed"
CONVERT_FAILED == "convert_failed"
TRANSCRIPTION_FAILED == "transcription_failed"
FORMAT_FAILED == "format_failed"
BUDGET_EXCEEDED == "budget_exceeded"
UNKNOWN_ERROR == "unknown_error"

FailureReason ==
    {INVALID_URL, ACCESS_DENIED, DOWNLOAD_FAILED, CONVERT_FAILED,
     TRANSCRIPTION_FAILED, FORMAT_FAILED, BUDGET_EXCEEDED, UNKNOWN_ERROR}

\* a TranscriptionJob as populate_jobs creates it (field defaults of the model)
TranscriptionJob(i) ==
    [ id             |-> i,
      status         |-> PENDING,
      started_at     |-> None,
      completed_at   |-> None,
      video_metadata |-> None,
      error_message  |-> None,
      failure_reason |-> None,
      retry_count    |-> 0,
      estimated_cost |-> None,
      actual_cost    |-> None,
      temp_video_path |-> None,
      temp_audio_path |-> None ]

\* a TranscriptionManifest with its field defaults
TranscriptionManifest(cap) ==
    [ jobs                 |-> <<>>,
      total_jobs           |-> 0,
      completed_jobs       |-> 0,
      failed_jobs          |-> 0,
      total_estimated_cost |-> 0,
      total_actual_cost    |-> 0,
      budget_cap           |-> cap ]

RECURSIVE SumCost(_, _)
\* sum(j.<field> or 0 for j in jobs)
SumCost(jobs, field) ==
    IF jobs = <<>> THEN 0
    ELSE OrElse(Head(jobs)[field], 0) + SumCost(Tail(jobs), field)

CountStatus(jobs, s) == Cardinality({i \in 1..Len(jobs) : jobs[i].status = s})

\* the recomputation that adds the cost sums to the totals already stored
UpdateStatsAccumulating(m) ==
    [m EXCEPT !.total_jobs = Len(m.jobs),
              !.completed_jobs = CountStatus(m.jobs, COMPLETED),
              !.failed_jobs = CountStatus(m.jobs, FAILED),
              !.total_estimated_cost = @ + SumCost(m.jobs, "estimated_cost"),
              !.total_actual_cost = @ + SumCost(m.jobs, "actual_cost")]

\* the recomputation that refreshes the counts and leaves the cost totals
UpdateStatsCountsOnly(m) ==
    [m EXCEPT !.total_jobs = Len(m.jobs),
              !.completed_jobs = CountStatus(m.jobs, COMPLETED),
              !.failed_jobs = CountStatus(m.jobs, FAILED)]

\* TranscriptionManifest.update_stats
update_stats(m) ==
    [m EXCEPT !.total_jobs = Len(m.jobs),
              !.completed_jobs = CountStatus(m.jobs, COMPLETED),
              !.failed_jobs = CountStatus(m.jobs, FAILED),
              !.total_estimated_cost = SumCost(m.jobs, "estimated_cost"),
              !.total_actual_cost = SumCost(m.jobs, "actual_cost")]

\* the eligibility test with the limit itself still accepted
IsRetryableLe(job) == job.status = FAILED /\ job.retry_count <= RetryLimit

\* the eligibility test without the status condition
IsRetryableAnyStatus(job) == job.retry_count < RetryLimit

\* the retry eligibility test of get_retryable_jobs
IsRetryable(job) == job.status = FAILED /\ job.retry_count < RetryLimit

RECURSIVE FilterIdx(_, _)
FilterIdx(jobs, i) ==
    IF i > Len(jobs) THEN <<>>
    ELSE (IF IsRetryable(jobs[i]) THEN <<i>> ELSE <<>>) \o FilterIdx(jobs, i + 1)

\* TranscriptionManifest.get_retryable_jobs, as the positions of the selected jobs
get_retryable_jobs(m) == FilterIdx(m.jobs, 1)

\* ManifestManager.save_manifest: the record written to manifest.json, kept to
\* the aggregates and, per job, the identity, status, retry count and costs
save_manifest(m) ==
    [m EXCEPT !.jobs = [i \in 1..Len(m.jobs) |->
        [ id             |-> m.jobs[i].id,
          status         |-> m.jobs[i].status,
          retry_count    |-> m.jobs[i].retry_count,
          estimated_cost |-> m.jobs[i].estimated_cost,
          actual_cost    |-> m.jobs[i].actual_cost ]]]

-----------------------------------------------------------------------------
(* manifest.json: json.dump(manifest.dict(), default=str) and its reload    *)
(* A JSON value is <<"null">>, <<"num", n>>, <<"str", s>>, <<"obj", r>> for *)
(* an object with the fields of record r, or a list of JSON values.         *)

JsonNull == <<"null">>

IsJsonNull(v) == v[1] = "null"

\* an Optional number: None is written null
JsonOptNum(x) == IF x = None THEN JsonNull ELSE <<"num", x[1]>>

\* an Optional str, str-enum or datetime (default=str): None is written null
JsonOptStr(x) == IF x = None THEN JsonNull ELSE <<"str", x[1]>>

\* an Optional value read back: null gives None
FromJsonOpt(v) == IF IsJsonNull(v) THEN None ELSE Some(v[2])

\* pydantic's lookup of an enum member by its value
EnumByValue(members, v) == CHOOSE e \in members : e = v[2]

\* job.dict() as json.dump writes it
JobToJson(job) ==
    [ id             |-> <<"num", job.id>>,
      status         |-> <<"str", job.status>>,
      started_at     |-> JsonOptStr(job.started_at),
      completed_at   |-> JsonOptStr(job.completed_at),
      video_metadata |-> IF job.video_metadata = None THEN JsonNull
                         ELSE <<"obj", [duration |->
                                      JsonOptNum(job.video_metadata[1].duration)]>>,
      error_message  |-> JsonOptStr(job.error_message),
      failure_reason |-> JsonOptStr(job.failure_reason),
      retry_count    |-> <<"num", job.retry_count>>,
      estimated_cost |-> JsonOptNum(job.estimated_cost),
      actual_cost    |-> JsonOptNum(job.actual_cost),
      temp_video_path |-> JsonOptStr(job.temp_video_path),
      temp_audio_path |-> JsonOptStr(job.temp_audio_path) ]

\* the content of manifest.json that save_manifest writes
ManifestToJson(m) ==
    [ jobs                 |-> [i \in 1..Len(m.jobs) |-> JobToJson(m.jobs[i])],
      total_jobs           |-> <<"num", m.total_jobs>>,
      completed_jobs       |-> <<"num", m.completed_jobs>>,
      failed_jobs          |-> <<"num", m.failed_jobs>>,
      total_estimated_cost |-> <<"num", m.total_estimated_cost>>,
      total_actual_cost    |-> <<"num", m.total_actual_cost>>,
      budget_cap           |-> <<"num", m.budget_cap>> ]

\* the job validation that leaves failure_reason at its default
JobFromJsonNoReason(d) ==
    [ id             |-> d.id[2],
      status         |-> EnumByValue(JobStatus, d.status),
      started_at     |-> FromJsonOpt(d.started_at),
      completed_at   |-> FromJsonOpt(d.completed_at),
      video_metadata |-> IF IsJsonNull(d.video_metadata) THEN None
                         ELSE Some([duration |-> FromJsonOpt(d.video_metadata[2].duration)]),
      error_message  |-> FromJsonOpt(d.error_message),
      failure_reason |-> None,
      retry_count    |-> d.retry_count[2],
      estimated_cost |-> FromJsonOpt(d.estimated_cost),
      actual_cost    |-> FromJsonOpt(d.actual_cost),
      temp_video_path |-> FromJsonOpt(d.temp_video_path),
      temp_audio_path |-> FromJsonOpt(d.temp_audio_path) ]

\* TranscriptionJob(**data): pydantic validation of one job of manifest.json
JobFromJson(d) ==
    [ id             |-> d.id[2],
      status         |-> EnumByValue(JobStatus, d.status),
      started_at     |-> FromJsonOpt(d.started_at),
      completed_at   |-> FromJsonOpt(d.completed_at),
      video_metadata |-> IF IsJsonNull(d.video_metadata) THEN None
                         ELSE Some([duration |-> FromJsonOpt(d.video_metadata[2].duration)]),
      error_message  |-> FromJsonOpt(d.error_message),
      failure_reason |-> IF IsJsonNull(d.failure_reason) THEN None
                         ELSE Some(EnumByValue(FailureReason, d.failure_reason)),
      retry_count    |-> d.retry_count[2],
      estimated_cost |-> FromJsonOpt(d.estimated_cost),
      actual_cost    |-> FromJsonOpt(d.actual_cost),
      temp_video_path |-> FromJsonOpt(d.temp_video_path),
      temp_audio_path |-> FromJsonOpt(d.temp_audio_path) ]

\* ManifestManager.load_manifest: TranscriptionManifest(**data), then update_stats
load_manifest(data) ==
    update_stats(
        [ jobs                 |-> [i \in 1..Len(data.jobs) |-> JobFromJson(data.jobs[i])],
          total_jobs           |-> data.total_jobs[2],
          completed_jobs       |-> data.completed_jobs[2],
          failed_jobs          |-> data.failed_jobs[2],
          total_estimated_cost |-> data.total_estimated_cost[2],
          total_actual_cost    |-> data.total_actual_cost[2],
          budget_cap           |-> data.budget_cap[2] ])

-----------------------------------------------------------------------------
(* Cost model (processor.py, adapters)                                     *)

estimate_transcription_cost(d) == d * CostPerSecond

estimate_conversion_cost(d) == BaseCost + d * DurationCostPerSecond

_estimate_job_cost(d) == estimate_transcription_cost(d) + estimate_conversion_cost(d)

_calculate_actual_cost(d) == _estimate_job_cost(d)

-----------------------------------------------------------------------------
(* Adapter results                                                         *)

\* get_video_metadata: None, or a VideoMetadata whose duration may be None
MetadataResults ==
    {None} \cup {Some([duration |-> d]) : d \in {None} \cup {Some(x) : x \in Durations}}

\* "pattern in text" on texts that are sequences of characters
Contains(text, pattern) ==
    \E k \in 0..(Len(text) - Len(pattern)) :
        SubSeq(text, k + 1, k + Len(pattern)) = pattern

LowerChar(c) ==
    CASE c = "A" -> "a" [] c = "B" -> "b" [] c = "E" -> "e" [] c = "I" -> "i"
      [] c = "L" -> "l" [] c = "P" -> "p" [] c = "R" -> "r" [] c = "T" -> "t"
      [] c = "U" -> "u" [] c = "V" -> "v" [] OTHER -> c

\* str.lower()
lower(text) == [k \in 1..Len(text) |-> LowerChar(text[k])]

PatPrivateVideo == <<"P", "r", "i", "v", "a", "t", "e", " ", "v", "i", "d", "e", "o">>

PatPrivate == <<"p", "r", "i", "v", "a", "t", "e">>

PatBlocked == <<"b", "l", "o", "c", "k", "e", "d">>

PatAvailable == <<"a", "v", "a", "i", "l", "a", "b", "l", "e">>

PatInvalidUrl == <<"I", "n", "v", "a", "l", "i", "d", " ", "U", "R", "L">>

PatUnsupportedUrl ==
    <<"U", "n", "s", "u", "p", "p", "o", "r", "t", "e", "d", " ", "U", "R", "L">>

\* the classification whose fallback is INVALID_URL
ClassifyFallbackInvalidUrl(error_msg) ==
    IF Contains(error_msg, PatPrivateVideo) \/ Contains(lower(error_msg), PatPrivate)
    THEN ACCESS_DENIED
    ELSE IF Contains(lower(error_msg), PatBlocked) \/ Contains(lower(error_msg), PatAvailable)
    THEN ACCESS_DENIED
    ELSE INVALID_URL

\* download_video, except yt_dlp.DownloadError: the reason read off the error text
ClassifyDownloadError(error_msg) ==
    IF Contains(error_msg, PatPrivateVideo) \/ Contains(lower(error_msg), PatPrivate)
    THEN ACCESS_DENIED
    ELSE IF Contains(lower(error_msg), PatBlocked) \/ Contains(lower(error_msg), PatAvailable)
    THEN ACCESS_DENIED
    ELSE IF Contains(error_msg, PatInvalidUrl) \/ Contains(error_msg, PatUnsupportedUrl)
    THEN INVALID_URL
    ELSE DOWNLOAD_FAILED

\* texts of a yt_dlp.DownloadError: "Private video", "PRIVATE", "Blocked",
\* "unavailable", "Invalid URL", "Unsupported URL", "invalid url", "timed out"
DownloadErrorTexts ==
    { PatPrivateVideo,
      <<"P", "R", "I", "V", "A", "T", "E">>,
      <<"B", "l", "o", "c", "k", "e", "d">>,
      <<"u", "n", "a", "v", "a", "i", "l", "a", "b", "l", "e">>,
      PatInvalidUrl,
      PatUnsupportedUrl,
      <<"i", "n", "v", "a", "l", "i", "d", " ", "u", "r", "l">>,
      <<"t", "i", "m", "e", "d", " ", "o", "u", "t">> }

\* the failure reasons download_video returns with a None path: no info or a
\* live stream, a private video, no downloaded file or another exception, and
\* the classification of a DownloadError
DownloadFailures ==
    {INVALID_URL, ACCESS_DENIED, DOWNLOAD_FAILED}
        \cup {ClassifyDownloadError(m) : m \in DownloadErrorTexts}

\* the formats a run may request (OutputFormats)
OutputFormats == {"txt", "json", "srt", "vtt"}

\* the lists of at most n requested formats
FormatLists(n) == UNION {[1..k -> OutputFormats] : k \in 0..n}

\* _format_job_outputs: the meta file, then each requested formatter in turn;
\* ok[k] is the result of the formatter of formats[k]; every OutputFormats
\* member has a formatter (lines 38-43)
_format_job_outputs(formats, ok) ==
    \A k \in 1..Len(formats) : ok[k]

\* the temporary files of job i
VideoPath(i) == <<i, "video">>

AudioPath(i) == <<i, "audio">>

\* _cleanup_temp_files: the recorded temp files that exist are unlinked
_cleanup_temp_files(files, job, delete_temp) ==
    IF ~delete_temp THEN files
    ELSE files \ ( (IF job.temp_video_path # None THEN {job.temp_video_path[1]} ELSE {})
                   \cup (IF job.temp_audio_path # None THEN {job.temp_audio_path[1]} ELSE {}) )

\* MetadataFormatter.create_meta_file: meta.json of the job, with the status the
\* job has when it is written
create_meta_file(metas, i, job) == [metas EXCEPT ![i] = Some(job.status)]

\* the format lists the runs of the orchestrator request
RunFormats == {<<>>, <<"txt">>, <<"txt", "srt">>}

\* ProcessingOptions with its field defaults
ProcessingOptions == [delete_temp |-> TRUE, dry_run |-> FALSE]

-----------------------------------------------------------------------------
(* Initial state: the processor is constructed, no batch has run           *)

InitProcessor ==
    /\ manifest = TranscriptionManifest(CapBudgetUsd)
    /\ saved = save_manifest(TranscriptionManifest(CapBudgetUsd))
    /\ run = "none"
    /\ pc = "idle"
    /\ todo = <<>>
    /\ cur = 1
    /\ budget = 0
    /\ clock = 0
    /\ attempts = <<>>
    /\ opts = ProcessingOptions
    /\ disk = {}
    /\ meta = <<>>

Init ==
    /\ InitProcessor
    /\ arg = <<>>
    /\ result = None

\* position in manifest.jobs of the job the loop is at
CurJob == todo[cur]

SetJob(job) == [manifest EXCEPT !.jobs[CurJob] = job]

-----------------------------------------------------------------------------
(* process_batch                                                           *)

\* ManifestManager.create_manifest followed by populate_jobs
create_manifest(n, cap) ==
    update_stats([TranscriptionManifest(OrElse(Some(cap), CapBudgetUsd))
                    EXCEPT !.jobs = [i \in 1..n |-> TranscriptionJob(i)]])

\* process_batch up to the job loop: load URLs, create and save the manifest,
\* and branch to the dry run when options.dry_run is set
StartBatch ==
    /\ UNCHANGED pure
    /\ pc = "idle" /\ run = "none"
    /\ \E n \in 0..MaxJobs, cap \in BatchBudgets, saveOK \in BOOLEAN,
          delete_temp \in BOOLEAN, dry_run \in BOOLEAN :
         IF n = 0
         THEN \* ValueError("No valid URLs found in input file")
              /\ run' = "aborted"
              /\ UNCHANGED <<manifest, saved, pc, todo, cur, budget, clock, attempts,
                             opts, disk, meta>>
         ELSE /\ manifest' = create_manifest(n, cap)
              /\ attempts' = [i \in 1..n |-> 0]
              /\ meta' = [i \in 1..n |-> None]
              /\ budget' = cap
              /\ opts' = [delete_temp |-> delete_temp, dry_run |-> dry_run]
              /\ IF saveOK
                 THEN /\ saved' = save_manifest(manifest')
                      /\ run' = IF dry_run THEN "dry" ELSE "batch"
                      /\ pc' = IF dry_run THEN "dry" ELSE "loop"
                      /\ todo' = [i \in 1..n |-> i]
                      /\ cur' = 1
                 ELSE \* save_manifest raised: process_batch is left by the exception
                      /\ run' = "aborted"
                      /\ UNCHANGED <<saved, pc, todo, cur>>
              /\ UNCHANGED <<clock, disk>>

\* the dry-run step that records its estimate as the actual cost as well
DryRunJobRecordsCost(job, metadata) ==
    LET duration == IF metadata # None
                    THEN OrElse(metadata[1].duration, DefaultDuration)
                    ELSE DefaultDuration
    IN [job EXCEPT !.video_metadata = IF metadata # None THEN metadata ELSE @,
                   !.estimated_cost = Some(_estimate_job_cost(duration)),
                   !.actual_cost = Some(_estimate_job_cost(duration)),
                   !.status = PENDING]

\* lines 353-364: one job of the dry run, given the result of its metadata probe
DryRunJob(job, metadata) ==
    LET duration == IF metadata # None
                    THEN OrElse(metadata[1].duration, DefaultDuration)
                    ELSE DefaultDuration
    IN [job EXCEPT !.video_metadata = IF metadata # None THEN metadata ELSE @,
                   !.estimated_cost = Some(_estimate_job_cost(duration)),
                   !.status = PENDING]

\* _perform_dry_run: the metadata probe and the estimate of one job, and after
\* the last job update_stats and the return of the manifest
DryRun ==
    /\ UNCHANGED pure
    /\ run = "dry" /\ pc = "dry"
    /\ IF cur > Len(todo)
       THEN /\ manifest' = update_stats(manifest)
            /\ pc' = "idle"
            /\ UNCHANGED cur
       ELSE /\ \E metadata \in MetadataResults :
                 manifest' = SetJob(DryRunJob(manifest.jobs[CurJob], metadata))
            /\ cur' = cur + 1
            /\ UNCHANGED pc
    /\ UNCHANGED <<saved, run, todo, budget, clock, attempts, opts, disk, meta>>

\* the marking step that marks no job
MarkNothing(m, current_index) == m

\* the marking step that fails the remaining jobs instead of skipping them
MarkRemainingFailed(m, current_index) ==
    [m EXCEPT !.jobs = [i \in 1..Len(m.jobs) |->
        IF i >= current_index /\ m.jobs[i].status = PENDING
        THEN [m.jobs[i] EXCEPT !.status = FAILED,
                               !.failure_reason = Some(BUDGET_EXCEEDED),
                               !.error_message = Some("Skipped due to budget cap")]
        ELSE m.jobs[i]]]

\* the marking step applied to the current job only
MarkOnlyCurrent(m, current_index) ==
    [m EXCEPT !.jobs[current_index] =
        IF @.status = PENDING
        THEN [@ EXCEPT !.status = SKIPPED,
                       !.failure_reason = Some(BUDGET_EXCEEDED),
                       !.error_message = Some("Skipped due to budget cap")]
        ELSE @]

\* the marking step that skips every job that is not COMPLETED
MarkEveryUnfinishedJob(m, current_index) ==
    [m EXCEPT !.jobs = [i \in 1..Len(m.jobs) |->
        IF m.jobs[i].status # COMPLETED
        THEN [m.jobs[i] EXCEPT !.status = SKIPPED,
                               !.failure_reason = Some(BUDGET_EXCEEDED),
                               !.error_message = Some("Skipped due to budget cap")]
        ELSE m.jobs[i]]]

\* the marking step that also lowers the recorded cap to the spend so far
MarkSkippedLowersCap(m, current_index) ==
    [m EXCEPT !.budget_cap = m.total_actual_cost,
              !.jobs = [i \in 1..Len(m.jobs) |->
        IF i >= current_index /\ m.jobs[i].status = PENDING
        THEN [m.jobs[i] EXCEPT !.status = SKIPPED,
                               !.failure_reason = Some(BUDGET_EXCEEDED),
                               !.error_message = Some("Skipped due to budget cap")]
        ELSE m.jobs[i]]]

\* _mark_remaining_jobs_skipped(manifest, current_job)
_mark_remaining_jobs_skipped(m, current_index) ==
    [m EXCEPT !.jobs = [i \in 1..Len(m.jobs) |->
        IF i >= current_index /\ m.jobs[i].status = PENDING
        THEN [m.jobs[i] EXCEPT !.status = SKIPPED,
                               !.failure_reason = Some(BUDGET_EXCEEDED),
                               !.error_message = Some("Skipped due to budget cap")]
        ELSE m.jobs[i]]]

\* the budget test with a strict comparison
BudgetReachedStrict(total_actual_cost, cap) == total_actual_cost > cap

\* the budget test at the head of both job loops (lines 75 and 263)
BudgetReached(total_actual_cost, cap) == total_actual_cost >= cap

\* head of the loop of process_batch (lines 74-80)
BatchLoop ==
    /\ UNCHANGED pure
    /\ run = "batch" /\ pc = "loop"
    /\ IF cur > Len(todo)
       THEN /\ pc' = "final"
            /\ UNCHANGED <<manifest, saved, run, todo, cur, budget, clock, attempts,
                         opts, disk, meta>>
       ELSE IF BudgetReached(manifest.total_actual_cost, budget)
       THEN /\ manifest' = _mark_remaining_jobs_skipped(manifest, CurJob)
            /\ pc' = "final"
            /\ UNCHANGED <<saved, run, todo, cur, budget, clock, attempts, opts, disk, meta>>
       ELSE /\ pc' = "start"
            /\ UNCHANGED <<manifest, saved, run, todo, cur, budget, clock, attempts,
                         opts, disk, meta>>

\* the final update_stats and save_manifest of process_batch and retry_failed_jobs
Final ==
    /\ UNCHANGED pure
    /\ pc = "final"
    /\ \E saveOK \in BOOLEAN :
         /\ manifest' = update_stats(manifest)
         /\ saved' = IF saveOK THEN save_manifest(manifest') ELSE saved
         /\ run' = IF saveOK THEN run ELSE "aborted"
         /\ pc' = "idle"
         /\ UNCHANGED <<todo, cur, budget, clock, attempts, opts, disk, meta>>

-----------------------------------------------------------------------------
(* retry_failed_jobs                                                       *)

\* retry_failed_jobs up to the job loop (lines 243-259)
StartRetry ==
    /\ UNCHANGED pure
    /\ pc = "idle" /\ run \in {"batch", "retry"}
    /\ Len(manifest.jobs) <= MaxRetryJobs
    /\ \E budget_cap \in RetryBudgets :
         IF get_retryable_jobs(manifest) = <<>>
         THEN \* "No jobs to retry": the manifest is returned as it is
              UNCHANGED vars
         ELSE /\ budget' = OrElse(budget_cap, CapBudgetUsd)
              /\ todo' = get_retryable_jobs(manifest)
              /\ cur' = 1
              /\ run' = "retry"
              /\ pc' = "loop"
              /\ opts' = ProcessingOptions
              /\ UNCHANGED <<manifest, saved, clock, attempts, disk, meta>>

\* the reset that leaves the failure reason in place
ResetForRetryKeepsReason(job) ==
    [job EXCEPT !.retry_count = @ + 1,
                !.status = PENDING,
                !.error_message = None]

\* the reset that counts the retry twice
ResetForRetryTwice(job) ==
    [job EXCEPT !.retry_count = @ + 2,
                !.status = PENDING,
                !.error_message = None,
                !.failure_reason = None]

\* lines 267-270: the reset of a job about to be retried
ResetForRetry(job) ==
    [job EXCEPT !.retry_count = @ + 1,
                !.status = PENDING,
                !.error_message = None,
                !.failure_reason = None]

\* head of the loop of retry_failed_jobs (lines 262-272)
RetryLoop ==
    /\ UNCHANGED pure
    /\ run = "retry" /\ pc = "loop"
    /\ IF cur > Len(todo) \/ BudgetReached(manifest.total_actual_cost, budget)
       THEN /\ pc' = "final"
            /\ UNCHANGED <<manifest, saved, run, todo, cur, budget, clock, attempts,
                         opts, disk, meta>>
       ELSE /\ manifest' = SetJob(ResetForRetry(manifest.jobs[CurJob]))
            /\ pc' = "start"
            /\ UNCHANGED <<saved, run, todo, cur, budget, clock, attempts, opts, disk, meta>>

-----------------------------------------------------------------------------
(* _process_single_job                                                     *)

\* the failure handler that records no error message
HandleFailureNoMessage(job, failure_reason, error_msg, now) ==
    [job EXCEPT !.status = FAILED,
                !.failure_reason = Some(failure_reason),
                !.completed_at = Some(now)]

\* the failure handler that leaves the status of the job as it is
HandleFailureKeepsStatus(job, failure_reason, error_msg, now) ==
    [job EXCEPT !.failure_reason = Some(failure_reason),
                !.error_message = Some(error_msg),
                !.completed_at = Some(now)]

\* _handle_job_failure: the fields it sets on the job
_handle_job_failure(job, failure_reason, error_msg, now) ==
    [job EXCEPT !.status = FAILED,
                !.failure_reason = Some(failure_reason),
                !.error_message = Some(error_msg),
                !.completed_at = Some(now)]

\* the position a failed attempt leaves the pipeline at, were it to go on to
\* the stage after the failed one
StayInPipeline(stage) ==
    CASE stage = "download" -> "convert"
      [] stage = "convert" -> "transcribe"
      [] stage = "transcribe" -> "format"
      [] OTHER -> "loop"

\* the position after a return from _process_single_job: the loop that called it
ReturnTo(stage) == "loop"

\* return from _process_single_job into the loop that called it
Return == pc' = ReturnTo(pc) /\ cur' = IF ReturnTo(pc) = "loop" THEN cur + 1 ELSE cur

\* a failed attempt: _handle_job_failure with the meta file it writes, the
\* cleanup where the exit path calls it, and the return
FailJob(failure_reason, error_msg, cleanup) ==
    LET job == _handle_job_failure(manifest.jobs[CurJob], failure_reason, error_msg, clock)
    IN /\ manifest' = SetJob(job)
       /\ meta' = create_meta_file(meta, CurJob, job)
       /\ disk' = IF cleanup THEN _cleanup_temp_files(disk, job, opts.delete_temp) ELSE disk
       /\ Return

\* lines 96-104: DOWNLOADING, started_at, the metadata probe and the early estimate
GetMetadata ==
    /\ UNCHANGED pure
    /\ pc = "start"
    /\ \E metadata \in MetadataResults :
         LET now == clock + 1
             j0 == [manifest.jobs[CurJob] EXCEPT !.status = DOWNLOADING,
                                                 !.started_at = Some(now)]
             j1 == IF metadata # None
                   THEN [j0 EXCEPT !.video_metadata = metadata,
                                   !.estimated_cost = Some(_estimate_job_cost(
                                       OrElse(metadata[1].duration, DefaultDuration)))]
                   ELSE j0
         IN /\ manifest' = SetJob(j1)
            /\ clock' = now
            /\ attempts' = [attempts EXCEPT ![CurJob] = @ + 1]
            /\ pc' = "download"
            /\ UNCHANGED <<saved, run, todo, cur, budget, opts, disk, meta>>

\* lines 107-115: download_video, the recorded video path, then CONVERTING
Download ==
    /\ UNCHANGED pure
    /\ pc = "download"
    /\ \/ \E failure_reason \in DownloadFailures :
            \* lines 108-110: no call of _cleanup_temp_files on this path
            FailJob(failure_reason, "adapter error", FALSE)
       \/ /\ manifest' = SetJob([manifest.jobs[CurJob] EXCEPT
                                    !.temp_video_path = Some(VideoPath(CurJob)),
                                    !.status = CONVERTING])
          /\ disk' = disk \cup {VideoPath(CurJob)}
          /\ pc' = "convert"
          /\ UNCHANGED <<cur, meta>>
    /\ UNCHANGED <<saved, run, todo, budget, clock, attempts, opts>>

\* lines 116-128: mkdir of the temp directory, convert_mp4_to_mp3, the recorded
\* audio path, then TRANSCRIBING
Convert ==
    /\ UNCHANGED pure
    /\ pc = "convert"
    /\ \/ \* audio_path.parent.mkdir raises: caught at line 169
          FailJob(UNKNOWN_ERROR, "exception", TRUE)
       \/ FailJob(CONVERT_FAILED, "adapter error", TRUE)
       \/ /\ manifest' = SetJob([manifest.jobs[CurJob] EXCEPT
                                    !.temp_audio_path = Some(AudioPath(CurJob)),
                                    !.status = TRANSCRIBING])
          /\ disk' = disk \cup {AudioPath(CurJob)}
          /\ pc' = "transcribe"
          /\ UNCHANGED <<cur, meta>>
    /\ UNCHANGED <<saved, run, todo, budget, clock, attempts, opts>>

\* lines 142-146: the actual cost recorded once transcription succeeded
ActualCost(job) ==
    IF job.video_metadata # None /\ Truthy(job.video_metadata[1].duration)
    THEN Some(_calculate_actual_cost(job.video_metadata[1].duration[1]))
    ELSE job.estimated_cost

\* the actual cost recorded before the result of transcribe_audio is tested
AfterTranscribeCostFirst(job, success, now) ==
    IF ~success
    THEN _handle_job_failure([job EXCEPT !.actual_cost = ActualCost(job)],
                             TRANSCRIPTION_FAILED, "adapter error", now)
    ELSE [job EXCEPT !.actual_cost = ActualCost(job), !.status = FORMATTING]

\* lines 133-149: the job after transcribe_audio returned success or failure
AfterTranscribe(job, success, now) ==
    IF ~success
    THEN _handle_job_failure(job, TRANSCRIPTION_FAILED, "adapter error", now)
    ELSE [job EXCEPT !.actual_cost = ActualCost(job), !.status = FORMATTING]

\* lines 129-149: transcribe_audio, the actual cost, then FORMATTING
Transcribe ==
    /\ UNCHANGED pure
    /\ pc = "transcribe"
    /\ \E success \in BOOLEAN :
         LET job == AfterTranscribe(manifest.jobs[CurJob], success, clock)
         IN /\ manifest' = SetJob(job)
            /\ IF success
               THEN pc' = "format" /\ UNCHANGED <<cur, disk, meta>>
               ELSE /\ meta' = create_meta_file(meta, CurJob, job)
                    /\ disk' = _cleanup_temp_files(disk, job, opts.delete_temp)
                    /\ Return
    /\ UNCHANGED <<saved, run, todo, budget, clock, attempts, opts>>

\* lines 150-158: the job after _format_job_outputs returned success or failure
AfterFormat(job, success, now) ==
    IF ~success
    THEN _handle_job_failure(job, FORMAT_FAILED, "Failed to format outputs", now)
    ELSE [job EXCEPT !.status = COMPLETED, !.completed_at = Some(now)]

\* lines 150-166: _format_job_outputs with the meta file it writes first, then
\* COMPLETED, the cleanup and update_stats
Format ==
    /\ UNCHANGED pure
    /\ pc = "format"
    /\ \E formats \in RunFormats :
       \E ok \in [1..Len(formats) -> BOOLEAN] :
         LET success == _format_job_outputs(formats, ok)
             job == AfterFormat(manifest.jobs[CurJob], success, clock)
         IN IF ~success
            THEN /\ manifest' = SetJob(job)
                 /\ meta' = create_meta_file(meta, CurJob, job)
                 /\ disk' = _cleanup_temp_files(disk, job, opts.delete_temp)
                 /\ Return
            ELSE /\ manifest' = update_stats(SetJob(job))
                 /\ meta' = create_meta_file(meta, CurJob, manifest.jobs[CurJob])
                 /\ disk' = IF opts.delete_temp
                            THEN _cleanup_temp_files(disk, job, TRUE)
                            ELSE disk
                 /\ pc' = "save"
                 /\ UNCHANGED cur
    /\ UNCHANGED <<saved, run, todo, budget, clock, attempts, opts>>

\* lines 167-172: save_manifest after a job completed; when it raises, the
\* exception is caught at line 169 and the job is handed to _handle_job_failure
SaveCompleted ==
    /\ UNCHANGED pure
    /\ pc = "save"
    /\ \/ /\ saved' = save_manifest(manifest)
          /\ Return
          /\ UNCHANGED <<manifest, disk, meta>>
       \/ /\ FailJob(UNKNOWN_ERROR, "exception", TRUE)
          /\ UNCHANGED saved
    /\ UNCHANGED <<run, todo, budget, clock, attempts, opts>>

-----------------------------------------------------------------------------

Next ==
    \/ StartBatch
    \/ DryRun
    \/ BatchLoop
    \/ Final
    \/ StartRetry
    \/ RetryLoop
    \/ GetMetadata
    \/ Download
    \/ Convert
    \/ Transcribe
    \/ Format
    \/ SaveCompleted

Spec == Init /\ [][Next]_allvars

\* one call of process_batch on its own: every step of the call is taken as long
\* as it is enabled (each adapter call and each file operation returns or raises)
BatchNext ==
    \/ StartBatch
    \/ DryRun
    \/ BatchLoop
    \/ Final
    \/ GetMetadata
    \/ Download
    \/ Convert
    \/ Transcribe
    \/ Format
    \/ SaveCompleted

LiveSpec == Init /\ [][BatchNext]_allvars /\ WF_allvars(BatchNext)

-----------------------------------------------------------------------------
(* Plain-text input (core/manifest.py): a file is the sequence of its      *)
(* lines, a line the sequence of its characters                            *)

\* the characters str.strip() removes, as far as the sample lines use them
Whitespace == {" ", "\t"}

RECURSIVE lstrip(_)
lstrip(line) ==
    IF line # <<>> /\ Head(line) \in Whitespace THEN lstrip(Tail(line)) ELSE line

RECURSIVE rstrip(_)
rstrip(line) ==
    IF line # <<>> /\ line[Len(line)] \in Whitespace
    THEN rstrip(SubSeq(line, 1, Len(line) - 1))
    ELSE line

\* str.strip()
strip(line) == rstrip(lstrip(line))

\* str.startswith(prefix)
startswith(line, prefix) ==
    Len(line) >= Len(prefix) /\ SubSeq(line, 1, Len(prefix)) = prefix

HashPrefix == <<"#">>

HttpPrefix == <<"h", "t", "t", "p">>

RECURSIVE LoadUrlsUntrimmed(_)
\* the loader that tests the line as read, without strip()
LoadUrlsUntrimmed(lines) ==
    IF lines = <<>> THEN <<>>
    ELSE LET line == Head(lines)
         IN (IF line # <<>> /\ ~startswith(line, HashPrefix) /\ startswith(line, HttpPrefix)
             THEN <<line>> ELSE <<>>) \o LoadUrlsUntrimmed(Tail(lines))

RECURSIVE _load_urls_from_txt(_)
\* ManifestManager._load_urls_from_txt: the loop over the lines of the file
_load_urls_from_txt(lines) ==
    IF lines = <<>> THEN <<>>
    ELSE LET line == strip(Head(lines))
         IN (IF line # <<>> /\ ~startswith(line, HashPrefix) /\ startswith(line, HttpPrefix)
             THEN <<line>>
             ELSE <<>>   \* blank, comment, or logged as "Invalid URL format"
            ) \o _load_urls_from_txt(Tail(lines))

RECURSIVE Digits(_)
\* the decimal digits of a natural number
Digits(n) == IF n < 10 THEN <<n>> ELSE Digits(n \div 10) \o <<n % 10>>

\* f"{i:03d}": the digits of i, zero-padded on the left to at least 3
Format03d(i) ==
    [k \in 1..(IF Len(Digits(i)) < 3 THEN 3 - Len(Digits(i)) ELSE 0) |-> 0] \o Digits(i)

\* f"{manifest.id}_job_{i:03d}"
JobId(batch_id, i) == <<batch_id, "_job_">> \o Format03d(i)

\* ManifestManager.populate_jobs: the jobs appended to the manifest, with the
\* url, id and status each is constructed with
populate_jobs(batch_id, urls) ==
    [i \in 1..Len(urls) |->
        [id |-> JobId(batch_id, i), url |-> urls[i], status |-> PENDING]]

\* the sample lines of an input file: a URL, a URL inside white space, an empty
\* line, a blank line, a commented-out URL, an indented comment, a non-http URL,
\* a line shorter than the prefix
SampleLines ==
    { <<"h", "t", "t", "p", ":", "a">>,
      <<" ", "\t", "h", "t", "t", "p", ":", "b", " ">>,
      <<>>,
      <<" ", " ">>,
      <<"#", "h", "t", "t", "p", ":", "c">>,
      <<" ", "#", "x">>,
      <<"f", "t", "p", ":", "d">>,
      <<"h", "t", "t">> }

\* the sequences of at most n lines
Files(n) == UNION {[1..k -> SampleLines] : k \in 0..n}

InitParse ==
    /\ InitProcessor
    /\ arg \in Files(MaxLines)
    /\ result = None

\* process_batch lines 49-64 on a plain-text file: load the URLs, refuse an
\* empty list with ValueError, else populate the manifest's jobs
LoadInput ==
    /\ result = None
    /\ LET urls == _load_urls_from_txt(arg)
       IN result' = Some(IF urls = <<>>
                         THEN [raised |-> TRUE, jobs |-> <<>>]
                         ELSE [raised |-> FALSE, jobs |-> populate_jobs("batch", urls)])
    /\ UNCHANGED <<arg, vars>>

ParseNext == LoadInput

ParseSpec == InitParse /\ [][ParseNext]_allvars

-----------------------------------------------------------------------------
(* Caption grouping (formatters/output_formatters.py): a word is a record  *)
(* [text, start, end]; a text is the sequence of its tokens, so that       *)
(* ' '.join puts a " " token between two words                             *)

RECURSIVE JoinSpace(_)
\* ' '.join(w['text'] for w in current_segment)
JoinSpace(ws) ==
    IF ws = <<>> THEN <<>>
    ELSE IF Len(ws) = 1 THEN <<ws[1].text>>
    ELSE <<ws[1].text, " ">> \o JoinSpace(Tail(ws))

\* the dict appended to segments for the words collected so far
Segment(current_start, current_segment) ==
    [ start |-> current_start,
      end   |-> current_segment[Len(current_segment)].end,
      text  |-> JoinSpace(current_segment) ]

\* "not word.get('start') or not word.get('end')": a timestamp that is 0 is falsy
NoTimestamp(word) == word.start = 0 \/ word.end = 0

RECURSIVE GroupLoop(_, _, _, _, _)
\* the loop over the words and the final segment; max_words is None for VTT,
\* whose loop has no word-count test
GroupLoop(words, segments, current_segment, current_start, max_words) ==
    IF words = <<>>
    THEN IF current_segment # <<>>
         THEN Append(segments, Segment(current_start, current_segment))
         ELSE segments
    ELSE LET word == Head(words)
             rest == Tail(words)
         IN IF NoTimestamp(word)
            THEN GroupLoop(rest, segments, current_segment, current_start, max_words)
            ELSE IF current_segment = <<>>
            THEN GroupLoop(rest, segments, <<word>>, word.start, max_words)
            ELSE IF \/ word.end - current_start > MaxDuration
                    \/ (max_words # None /\ Len(current_segment) >= max_words[1])
            THEN GroupLoop(rest, Append(segments, Segment(current_start, current_segment)),
                           <<word>>, word.start, max_words)
            ELSE GroupLoop(rest, segments, Append(current_segment, word),
                           current_start, max_words)

\* SRTFormatter._group_words_into_segments(words)
SRT_group_words_into_segments(words) == GroupLoop(words, <<>>, <<>>, 0, Some(MaxWords))

\* VTTFormatter._group_words_into_segments(words)
VTT_group_words_into_segments(words) == GroupLoop(words, <<>>, <<>>, 0, None)

\* the word texts, by position in the transcript
Texts == <<"a", "b", "c">>

InitCaption ==
    /\ InitProcessor
    /\ arg = <<>>
    /\ result = None

\* the transcript grows by one word, which starts where the previous one ended
AppendWord ==
    /\ result = None /\ Len(arg) < MaxWordCount
    /\ \E start \in (IF arg = <<>> THEN FirstStarts ELSE {arg[Len(arg)].end}),
          length \in WordLengths :
         arg' = Append(arg, [text  |-> Texts[(Len(arg) % 3) + 1],
                             start |-> start,
                             end   |-> start + length])
    /\ UNCHANGED <<result, vars>>

\* SRTFormatter.format_transcript groups the words of the transcript
GroupSRT ==
    /\ result = None /\ arg # <<>>
    /\ result' = Some([format |-> "srt", segments |-> SRT_group_words_into_segments(arg)])
    /\ UNCHANGED <<arg, vars>>

\* VTTFormatter.format_transcript groups the words of the transcript
GroupVTT ==
    /\ result = None /\ arg # <<>>
    /\ result' = Some([format |-> "vtt", segments |-> VTT_group_words_into_segments(arg)])
    /\ UNCHANGED <<arg, vars>>

CaptionNext ==
    \/ AppendWord
    \/ GroupSRT
    \/ GroupVTT

CaptionSpec == InitCaption /\ [][CaptionNext]_allvars

-----------------------------------------------------------------------------
(* The outcome of the formatting stage (_process_single_job lines 148-158)   *)
(* arg is <<formats, ok>>: the requested formats and, per requested format,  *)
(* whether its formatter succeeds                                            *)

FormatInputs(n) ==
    UNION {{<<formats, ok>> : ok \in [1..Len(formats) -> BOOLEAN]} : formats \in FormatLists(n)}

InitFormat ==
    /\ InitProcessor
    /\ arg \in FormatInputs(MaxFormats)
    /\ result = None

\* a job whose transcription succeeded goes through the formatting stage, and
\* update_stats is called on the manifest that holds it
FormatOutputs ==
    /\ result = None
    /\ LET transcribed == [TranscriptionJob(1) EXCEPT !.status = FORMATTING,
                                                      !.started_at = Some(1)]
           job == AfterFormat(transcribed, _format_job_outputs(arg[1], arg[2]), 1)
       IN result' = Some([job |-> job,
                          completed_jobs |->
                              update_stats([TranscriptionManifest(CapBudgetUsd)
                                              EXCEPT !.jobs = <<job>>]).completed_jobs])
    /\ UNCHANGED <<arg, vars>>

FormatNext == FormatOutputs

FormatSpec == InitFormat /\ [][FormatNext]_allvars

-----------------------------------------------------------------------------
(* estimate_batch (processor.py lines 281-327): arg[i] is what                *)
(* get_video_metadata returns for the i-th URL of the input file; a float     *)
(* quotient is kept exact as [num, den]                                       *)

Min(a, b) == IF a <= b THEN a ELSE b

\* the sample that is every URL of the input
SampleEveryUrl(urls) == urls

\* line 296: sample_urls = urls[:min(5, len(urls))]
SampleUrls(urls) == SubSeq(urls, 1, Min(SampleSize, Len(urls)))

\* lines 300-303: the duration the estimate of a sampled URL is made for
SampleDuration(metadata) ==
    IF metadata # None /\ Truthy(metadata[1].duration)
    THEN metadata[1].duration[1]
    ELSE DefaultDuration

RECURSIVE SumEstimates(_)
\* lines 298-309: total_cost over the sample
SumEstimates(sample_urls) ==
    IF sample_urls = <<>> THEN 0
    ELSE _estimate_job_cost(SampleDuration(Head(sample_urls)))
            + SumEstimates(Tail(sample_urls))

\* estimate_batch: the dict it returns, and the positions of the URLs whose
\* metadata it probed
estimate_batch(urls) ==
    IF urls = <<>>
    THEN [ret |-> [total_urls |-> 0, estimated_cost |-> [num |-> 0, den |-> 1]],
          probed |-> {}]
    ELSE LET sample_urls == SampleUrls(urls)
             total_cost == SumEstimates(sample_urls)
             avg_cost == [num |-> total_cost, den |-> Len(sample_urls)]
         IN [ret |-> [total_urls |-> Len(urls),
                      estimated_cost |-> [num |-> avg_cost.num * Len(urls),
                                          den |-> avg_cost.den],
                      sample_size |-> Len(sample_urls)],
             probed |-> 1..Len(sample_urls)]

InitEstimate ==
    /\ InitProcessor
    /\ arg \in UNION {[1..n -> MetadataResults] : n \in 0..MaxUrls}
    /\ result = None

EstimateBatch ==
    /\ result = None
    /\ result' = Some(estimate_batch(arg))
    /\ UNCHANGED <<arg, vars>>

EstimateNext == EstimateBatch

EstimateSpec == InitEstimate /\ [][EstimateNext]_allvars

-----------------------------------------------------------------------------
(* _estimate_job_time (processor.py lines 387-402); times are in hundredths   *)
(* of a second, so that 0.5 and 0.33 seconds per second are 50 and 33         *)

\* what extract_info("") returns: None (also for a raised exception or an empty
\* dict), or an info dict without a 'duration' key, with 'duration': None, or
\* with a duration in seconds
ExtractInfoResults ==
    {None} \cup {Some([has_duration |-> FALSE, duration |-> None])}
           \cup {Some([has_duration |-> TRUE, duration |-> d]) :
                    d \in {None} \cup {Some(x) : x \in InfoDurations}}

\* VideoDownloader.estimate_download_time, in seconds: min(duration * 2, 300),
\* 60.0 when the arithmetic raises, None without info
estimate_download_time(info) ==
    IF info = None THEN None
    ELSE LET duration == IF info[1].has_duration THEN info[1].duration
                         ELSE Some(DefaultInfoDuration)
         IN IF duration = None THEN Some(DefaultDownloadTime)
            ELSE Some(Min(duration[1] * 2, DownloadTimeCap))

\* FreeConvertAPI.estimate_conversion_time on file_size_mb = duration * 0.5
estimate_conversion_time(duration_seconds) ==
    ConversionBaseTime * 100 + duration_seconds * 50

\* AssemblyAIAPI.estimate_transcription_time
estimate_transcription_time(duration_seconds) ==
    duration_seconds * 33 + TranscriptionBufferTime * 100

\* _estimate_job_time, given what its call of extract_info("") returns
_estimate_job_time(duration_seconds, info) ==
    LET download_time == OrElse(estimate_download_time(info), DefaultDownloadTime)
    IN download_time * 100 + estimate_conversion_time(duration_seconds)
          + estimate_transcription_time(duration_seconds) + JobBufferTime * 100

\* a job with the metadata a successful probe of duration d gives
ProbedJob(d) ==
    [TranscriptionJob(1) EXCEPT !.video_metadata = Some([duration |-> Some(d)])]

InitTime ==
    /\ InitProcessor
    /\ arg \in [duration : TimeDurations, info : ExtractInfoResults]
    /\ result = None

\* the estimates of a job of duration arg.duration: the cost and the time, the
\* adapter calls the two functions made, the estimated_cost a dry run assigns
\* and the actual_cost recorded after transcription
EstimateJob ==
    /\ result = None
    /\ result' = Some(
         [ cost |-> _estimate_job_cost(arg.duration),
           time |-> _estimate_job_time(arg.duration, arg.info),
           cost_calls |-> <<>>,
           time_calls |-> <<"extract_info">>,
           dry_run |-> DryRunJob(TranscriptionJob(1),
                                 Some([duration |-> Some(arg.duration)])).estimated_cost,
           actual |-> ActualCost(ProbedJob(arg.duration)) ])
    /\ UNCHANGED <<arg, vars>>

TimeNext == EstimateJob

TimeSpec == InitTime /\ [][TimeNext]_allvars

-----------------------------------------------------------------------------
(* AssemblyAIAPI.wait_for_transcription (assemblyai_api.py lines 72-137)      *)
(* arg is the state of the call: the seconds elapsed since start_time, the    *)
(* max_wait_time it was given, and the outcome of the last status poll        *)

\* what one poll of client.get_transcript gives: a status, or an exception
PollOutcomes == {"completed", "error", "queued", "processing", "unknown", "raises"}

\* the sleep after which the elapsed time starts again from 0 when a poll raised
ElapsedRestartsOnError(elapsed, outcome) ==
    IF outcome = "raises" THEN 0 ELSE elapsed + PollInterval

\* time.sleep(15) after a poll without a final status, time.sleep(20) after a
\* poll that raised
ElapsedAfterSleep(elapsed, outcome) ==
    IF outcome = "raises" THEN elapsed + ErrorInterval ELSE elapsed + PollInterval

InitWait ==
    /\ InitProcessor
    /\ arg \in [elapsed : {0}, max_wait_time : WaitTimes, last : {"none"}]
    /\ result = None

\* one iteration of the while loop: the poll, and the return or the sleep
Poll ==
    /\ result = None
    /\ arg.elapsed < arg.max_wait_time
    /\ \E outcome \in PollOutcomes :
         IF outcome = "completed"
         THEN /\ result' = Some([success |-> TRUE, timed_out |-> FALSE])
              /\ arg' = [arg EXCEPT !.last = outcome]
         ELSE IF outcome = "error"
         THEN /\ result' = Some([success |-> FALSE, timed_out |-> FALSE])
              /\ arg' = [arg EXCEPT !.last = outcome]
         ELSE /\ arg' = [arg EXCEPT !.last = outcome,
                                    !.elapsed = ElapsedAfterSleep(arg.elapsed, outcome)]
              /\ UNCHANGED result
    /\ UNCHANGED vars

\* the loop condition fails: "Transcription timed out", return False, None
TimeOut ==
    /\ result = None
    /\ arg.elapsed >= arg.max_wait_time
    /\ result' = Some([success |-> FALSE, timed_out |-> TRUE])
    /\ UNCHANGED <<arg, vars>>

WaitNext ==
    \/ Poll
    \/ TimeOut

\* every poll returns or raises and every sleep ends, so the call takes its
\* next step as long as it has one
WaitSpec == InitWait /\ [][WaitNext]_allvars /\ WF_allvars(WaitNext)

-----------------------------------------------------------------------------
(* Input files (core/manifest.py lines 44-89): a file has a suffix that is    *)
(* '.csv' or not, can be opened or not, and holds text lines or, read by      *)
(* csv.DictReader, field names (None for an empty file) and rows; a row is    *)
(* the cell of its 'url' key, None when the row is too short to have one      *)

\* the cells of the url column: a URL, a URL inside white space, an empty cell,
\* a non-http URL, and None for a row without that cell
CsvCells ==
    { None,
      Some(<<"h", "t", "t", "p", ":", "a">>),
      Some(<<" ", "h", "t", "t", "p", ":", "b", " ">>),
      Some(<<>>),
      Some(<<"f", "t", "p", ":", "d">>) }

\* reader.fieldnames: None, or a header without or with a url column
CsvFieldnames == {None, Some(<<"id">>), Some(<<"url">>), Some(<<"id", "url">>)}

InputFiles(n) ==
    [csv : {FALSE}, readable : BOOLEAN, lines : Files(n),
     fieldnames : {None}, rows : {<<>>}]
      \cup [csv : {TRUE}, readable : BOOLEAN, lines : {<<>>},
            fieldnames : CsvFieldnames,
            rows : UNION {[1..k -> CsvCells] : k \in 0..n}]

RECURSIVE LoadCsvRows(_)
\* the loop over the rows of _load_urls_from_csv: row.get('url', '').strip()
\* raises AttributeError on a row whose cell is None
LoadCsvRows(rows) ==
    IF rows = <<>> THEN [raised |-> FALSE, urls |-> <<>>]
    ELSE IF Head(rows) = None THEN [raised |-> TRUE, urls |-> <<>>]
    ELSE LET url == strip(Head(rows)[1])
             rest == LoadCsvRows(Tail(rows))
         IN [raised |-> rest.raised,
             urls |-> (IF url # <<>> /\ startswith(url, HttpPrefix)
                       THEN <<url>> ELSE <<>>) \o rest.urls]

\* ManifestManager._load_urls_from_csv: "'url' not in reader.fieldnames" raises
\* TypeError on None and is answered by ValueError when the column is missing
_load_urls_from_csv(file) ==
    IF file.fieldnames = None THEN [raised |-> TRUE, urls |-> <<>>]
    ELSE IF \A k \in 1..Len(file.fieldnames[1]) : file.fieldnames[1][k] # "url"
    THEN [raised |-> TRUE, urls |-> <<>>]
    ELSE LoadCsvRows(file.rows)

\* ManifestManager.load_urls_from_file: any exception of the loaders, open()
\* of an unreadable file included, is logged and answered by []
load_urls_from_file(file) ==
    IF ~file.readable THEN <<>>
    ELSE IF file.csv
    THEN (IF _load_urls_from_csv(file).raised THEN <<>> ELSE _load_urls_from_csv(file).urls)
    ELSE _load_urls_from_txt(file.lines)

\* the test that refuses no input
RefusesNothing(urls) == FALSE

\* process_batch line 51: "if not urls: raise ValueError"
RefusesInput(urls) == urls = <<>>

InitInput ==
    /\ InitProcessor
    /\ arg \in InputFiles(MaxInputLines)
    /\ result = None

\* process_batch (lines 49-64) and estimate_batch (lines 283-327) on the same
\* input file: what each raises or returns, the manifest process_batch creates
\* and saves, and the URLs each call probes or processes
ProcessAndEstimate ==
    /\ result = None
    /\ LET urls == load_urls_from_file(arg)
       IN \E probes \in [1..Len(urls) -> MetadataResults] :
            result' = Some(
              [ process_batch |->
                  IF RefusesInput(urls)
                  THEN [raised |-> TRUE, manifest_created |-> FALSE,
                        manifest_saved |-> FALSE, jobs |-> <<>>]
                  ELSE [raised |-> FALSE, manifest_created |-> TRUE,
                        manifest_saved |-> TRUE, jobs |-> populate_jobs("batch", urls)],
                estimate_batch |-> estimate_batch(probes) ])
    /\ UNCHANGED <<arg, vars>>

InputNext == ProcessAndEstimate

InputSpec == InitInput /\ [][InputNext]_allvars

-----------------------------------------------------------------------------
(* ManifestManager.calculate_batch_stats                                    *)

\* the counts and cost figures of the dict it returns
calculate_batch_stats(m) ==
    LET total == Len(m.jobs)
        completed == CountStatus(m.jobs, COMPLETED)
        failed == CountStatus(m.jobs, FAILED)
        pending == CountStatus(m.jobs, PENDING)
        total_cost == SumCost(m.jobs, "actual_cost")
    IN [ total_jobs       |-> total,
         completed        |-> completed,
         failed           |-> failed,
         pending          |-> pending,
         in_progress      |-> total - completed - failed - pending,
         total_cost       |-> total_cost,
         estimated_cost   |-> SumCost(m.jobs, "estimated_cost"),
         budget_remaining |-> m.budget_cap - total_cost ]

-----------------------------------------------------------------------------
(* Properties                                                              *)

Jobs == manifest.jobs

JobIdx == 1..Len(manifest.jobs)

\* the pipeline of _process_single_job is between two adapter calls
InPipeline == pc \in {"start", "download", "convert", "transcribe", "format", "save"}

\* sum of the actual_cost recorded on the jobs of a list
Spend(js) == SumCost(js, "actual_cost")

\* largest actual_cost recorded on a job of a list
MaxSpend(js) ==
    IF js = <<>> THEN 0
    ELSE LET c(i) == OrElse(js[i].actual_cost, 0)
         IN c(CHOOSE i \in 1..Len(js) : \A k \in 1..Len(js) : c(k) <= c(i))

\* the positions a job list selects
Range(seq) == {seq[k] : k \in 1..Len(seq)}

\* C1 as stated: a job has a failure_reason exactly when its status is FAILED.
C1_ReasonIffFailed ==
    \A i \in JobIdx : (Jobs[i].failure_reason # None) <=> (Jobs[i].status = FAILED)

\* C1, amended: a job has a failure_reason exactly when its status is FAILED or
\* SKIPPED, a SKIPPED job carrying BUDGET_EXCEEDED; a PENDING, in-progress or
\* COMPLETED job has none.
C1_ReasonIffFailedOrSkipped ==
    \A i \in JobIdx :
        /\ (Jobs[i].failure_reason # None) <=> (Jobs[i].status \in {FAILED, SKIPPED})
        /\ Jobs[i].status = SKIPPED => Jobs[i].failure_reason = Some(BUDGET_EXCEEDED)

\* a retried job is PENDING again, its reason cleared, next to a job the budget skipped
C1_Witness ==
    /\ run = "retry"
    /\ \E i, k \in JobIdx :
         /\ Jobs[i].status = PENDING /\ Jobs[i].retry_count > 0
         /\ Jobs[i].failure_reason = None
         /\ Jobs[k].status = SKIPPED /\ Jobs[k].failure_reason # None

\* C2: every COMPLETED job has a non-null actual_cost, also when the metadata
\* probe failed or gave no duration.
C2_CompletedHasActualCost ==
    \A i \in JobIdx : Jobs[i].status = COMPLETED => Jobs[i].actual_cost # None

C3_FirstAttempt ==
    \A i \in JobIdx :
        (Jobs[i].actual_cost # None /\ Jobs[i].retry_count = 0) =>
            \/ Jobs[i].status \in {FORMATTING, COMPLETED}
            \/ /\ Jobs[i].status = FAILED
               /\ Jobs[i].failure_reason \in {Some(FORMAT_FAILED), Some(UNKNOWN_ERROR)}

\* the only step that gives a job an actual_cost, and no step takes it away
C3_SetByTranscription ==
    \A i \in JobIdx :
        /\ (Jobs[i].actual_cost = None /\ manifest'.jobs[i].actual_cost # None) =>
               (Jobs[i].status = TRANSCRIBING /\ manifest'.jobs[i].status = FORMATTING)
        /\ Jobs[i].actual_cost # None => manifest'.jobs[i].actual_cost # None

C4_BudgetHardStop ==
    /\ (run = "batch" /\ pc = "start") => Spend(Jobs) < budget
    /\ (run = "batch" /\ pc = "idle") =>
          \A i \in JobIdx :
              /\ Jobs[i].status # PENDING
              /\ Spend(SubSeq(Jobs, 1, i - 1)) >= budget =>
                    /\ Jobs[i].status = SKIPPED
                    /\ Jobs[i].failure_reason = Some(BUDGET_EXCEEDED)

\* C5: every manifest persisted by process_batch shows a total actual cost of at
\* most budget_cap plus the largest actual cost of a single job.
C5_PersistedSpendBounded ==
    run = "batch" =>
        Spend(saved.jobs) <= saved.budget_cap + MaxSpend(saved.jobs)

\* the scenario: 3 URLs, a budget cap of 0.01, the cost of job 1 known from metadata
C6_Scenario ==
    /\ run = "batch" /\ pc = "idle"
    /\ Len(Jobs) = 3 /\ budget = 1000
    /\ Jobs[1].video_metadata # None

C6_Outcome ==
    /\ attempts[1] = 1
    /\ Jobs[2].status = SKIPPED /\ Jobs[3].status = SKIPPED
    /\ attempts[2] = 0 /\ attempts[3] = 0

C7_Selection ==
    (pc = "idle" /\ pc' = "loop" /\ run' = "retry") =>
        \A i \in JobIdx :
            (i \in Range(todo')) <=>
                (Jobs[i].status = FAILED /\ Jobs[i].retry_count < RetryLimit)

\* the loop head of retry_failed_jobs resets the selected job it is at
C7_Reset ==
    LET before == Jobs[todo[cur]]
        after == manifest'.jobs[todo[cur]]
    IN /\ after.retry_count = before.retry_count + 1
       /\ after.failure_reason = None
       /\ after.error_message = None
       /\ pc' = "start"
       /\ attempts' = attempts

\* a retried job enters its pipeline with its failure cleared
C7_ClearedBeforePipeline ==
    (run = "retry" /\ pc = "start" /\ pc' # pc) =>
        /\ Jobs[todo[cur]].failure_reason = None
        /\ Jobs[todo[cur]].error_message = None
        /\ attempts'[todo[cur]] = attempts[todo[cur]] + 1

\* C7 as stated: no FAILED job at the retry limit is selected, and every FAILED
\* job below it is selected, has retry_count incremented by exactly 1 and its
\* failure_reason and error_message cleared before its pipeline runs again.
C7_EverySelectedJobRetried ==
    [][ /\ C7_Selection
        /\ (run = "retry" /\ pc = "loop" /\ cur <= Len(todo)) => C7_Reset
        /\ C7_ClearedBeforePipeline ]_vars

\* C7, amended: no FAILED job at the retry limit is selected and every FAILED job
\* below it is selected; each selected job the loop reaches while
\* total_actual_cost is below the budget has retry_count incremented by exactly 1
\* and failure_reason and error_message cleared before its pipeline runs again.
C7_SelectedJobRetriedWithinBudget ==
    [][ /\ C7_Selection
        /\ (run = "retry" /\ pc = "loop" /\ cur <= Len(todo)
              /\ manifest.total_actual_cost < budget) => C7_Reset
        /\ C7_ClearedBeforePipeline ]_vars

\* a job at the retry limit is left out while a job below it was reset for its retry
C7_Witness ==
    /\ run = "retry" /\ pc = "start"
    /\ Jobs[todo[cur]].status = PENDING /\ Jobs[todo[cur]].retry_count > 0
    /\ \E i \in JobIdx :
         /\ Jobs[i].status = FAILED /\ Jobs[i].retry_count = RetryLimit
         /\ i \notin Range(todo)

\* C8: every job has 0 <= retry_count <= retry limit, and its pipeline has run at
\* most retry limit times after the first attempt.
C8_RetryCountBounded ==
    \A i \in JobIdx :
        /\ 0 <= Jobs[i].retry_count /\ Jobs[i].retry_count <= RetryLimit
        /\ attempts[i] <= 1 + RetryLimit

\* a job has used all its retries and retry_failed_jobs returned once more
C8_Witness ==
    /\ run = "retry" /\ pc = "idle"
    /\ \E i \in JobIdx :
         /\ Jobs[i].status = FAILED
         /\ Jobs[i].retry_count = RetryLimit
         /\ attempts[i] = 1 + RetryLimit

\* a job retry_failed_jobs must leave alone: not FAILED, or out of retries
C9_Untouchable(job) == job.status # FAILED \/ job.retry_count >= RetryLimit

\* C9: retry_failed_jobs selects no job that is not FAILED or that is FAILED at
\* the retry limit, and while it runs every job it did not select keeps all its
\* fields and has no pipeline (adapter) call made for it.
C9_UnselectedUntouched ==
    [][ /\ (pc = "idle" /\ pc' = "loop" /\ run' = "retry") =>
              \A i \in JobIdx : C9_Untouchable(Jobs[i]) => i \notin Range(todo')
        /\ (run = "retry" /\ run' = "retry") =>
              \A i \in JobIdx \ Range(todo) :
                  /\ manifest'.jobs[i] = Jobs[i]
                  /\ attempts'[i] = attempts[i] ]_vars

\* a selected job is in its pipeline next to a job that was not selected
C9_Witness ==
    /\ run = "retry" /\ pc = "download"
    /\ \E i \in JobIdx \ Range(todo) : C9_Untouchable(Jobs[i])

\* the loop of retry_failed_jobs is at a selected job with the budget reached
C10_AtCutoff ==
    /\ run = "retry" /\ pc = "loop" /\ cur <= Len(todo)
    /\ manifest.total_actual_cost >= budget

\* C10 as stated: when the budget is reached before a selected job, that job and
\* all remaining selected jobs are marked SKIPPED with BUDGET_EXCEEDED.
C10_RetryCutoffSkips ==
    [][ C10_AtCutoff =>
          \A k \in cur..Len(todo) :
              /\ manifest'.jobs[todo[k]].status = SKIPPED
              /\ manifest'.jobs[todo[k]].failure_reason = Some(BUDGET_EXCEEDED) ]_vars

\* C10, amended: before each selected job total_actual_cost is compared with the
\* budget; when it is reached the loop stops, the current and all remaining
\* selected jobs are left as they are (FAILED, not SKIPPED), and no further
\* adapter call is made in that run.
C10_RetryCutoffStops ==
    [][ /\ C10_AtCutoff => (pc' = "final" /\ manifest'.jobs = Jobs /\ attempts' = attempts)
        /\ (run = "retry" /\ pc = "final") =>
              (pc' = "idle" /\ manifest'.jobs = Jobs /\ attempts' = attempts) ]_vars

\* the retry loop stopped at its second selected job, which is still FAILED
C10_Witness ==
    /\ run = "retry" /\ pc = "final"
    /\ cur > 1 /\ cur <= Len(todo)
    /\ manifest.total_actual_cost >= budget
    /\ Jobs[todo[cur]].status = FAILED

\* the status changes the job state machine allows
AllowedTransitions ==
    {<<PENDING, DOWNLOADING>>, <<DOWNLOADING, CONVERTING>>,
     <<CONVERTING, TRANSCRIBING>>, <<TRANSCRIBING, FORMATTING>>,
     <<FORMATTING, COMPLETED>>,
     <<DOWNLOADING, FAILED>>, <<CONVERTING, FAILED>>,
     <<TRANSCRIBING, FAILED>>, <<FORMATTING, FAILED>>,
     <<PENDING, SKIPPED>>, <<FAILED, PENDING>>}

\* C11: every status change of a job is PENDING->DOWNLOADING,
\* DOWNLOADING->CONVERTING, CONVERTING->TRANSCRIBING, TRANSCRIBING->FORMATTING,
\* FORMATTING->COMPLETED, an in-progress stage->FAILED, PENDING->SKIPPED, or
\* FAILED->PENDING done by the loop of retry_failed_jobs; nothing else.
C11_OnlyAllowedTransitions ==
    [][ \A i \in JobIdx :
          (i <= Len(manifest'.jobs) /\ manifest'.jobs[i].status # Jobs[i].status) =>
              /\ <<Jobs[i].status, manifest'.jobs[i].status>> \in AllowedTransitions
              /\ Jobs[i].status = FAILED => (run = "retry" /\ pc = "loop") ]_vars

\* C12: in process_batch, whenever job k is about to enter or is inside its
\* pipeline, the persisted manifest shows, for every job before k, its status,
\* and that status is terminal: the manifest was saved after each job returned,
\* COMPLETED or FAILED.
C12_PersistedBeforeNextJob ==
    (run = "batch" /\ InPipeline) =>
        \A i \in 1..(cur - 1) :
            /\ saved.jobs[i].status = Jobs[i].status
            /\ saved.jobs[i].status \in {COMPLETED, FAILED, SKIPPED}

\* a step of a job's pipeline in process_batch that ends the job FAILED
C13_JobFails ==
    /\ run = "batch" /\ InPipeline
    /\ manifest'.jobs[CurJob].status = FAILED

\* C13: in process_batch a failure of a job at any stage, adapter-reported or an
\* exception, gives the job FAILED with a reason and a message (UNKNOWN_ERROR for
\* an exception), leaves process_batch running (nothing propagates), and the loop
\* moves to the next job in manifest order, which it starts unless the budget is
\* reached.
C13_FailureNeverAbortsBatch ==
    [][ /\ (run = "batch" /\ InPipeline) => run' = "batch"
        /\ C13_JobFails =>
              /\ manifest'.jobs[CurJob].failure_reason # None
              /\ manifest'.jobs[CurJob].error_message # None
              /\ manifest'.jobs[CurJob].error_message = Some("exception") =>
                     manifest'.jobs[CurJob].failure_reason = Some(UNKNOWN_ERROR)
              /\ pc' = "loop" /\ cur' = cur + 1 /\ todo' = todo
              /\ \A i \in JobIdx \ {CurJob} : manifest'.jobs[i] = Jobs[i]
        /\ (run = "batch" /\ pc = "loop" /\ cur <= Len(todo)
              /\ manifest.total_actual_cost < budget) =>
              (pc' = "start" /\ cur' = cur /\ todo[cur] = cur) ]_vars

\* job 1 FAILED on an exception and job 2 is in its pipeline after it
C13_Witness ==
    /\ run = "batch" /\ pc = "download" /\ cur = 2
    /\ Jobs[1].status = FAILED /\ Jobs[1].failure_reason = Some(UNKNOWN_ERROR)
    /\ Jobs[2].status = DOWNLOADING

\* every job of the manifest is COMPLETED, FAILED or SKIPPED
AllTerminal == \A i \in JobIdx : Jobs[i].status \in {COMPLETED, FAILED, SKIPPED}

C15_SkippedNeverAttempted ==
    \A i \in JobIdx :
        /\ Jobs[i].status = SKIPPED =>
              /\ attempts[i] = 0
              /\ Jobs[i].started_at = None
              /\ Jobs[i].video_metadata = None
              /\ Jobs[i].actual_cost = None
        /\ Jobs[i].status = FAILED => Jobs[i].failure_reason # Some(BUDGET_EXCEEDED)

\* the budget cut the batch after a job that spent it: the next job is SKIPPED,
\* never started, and retry_failed_jobs has run on the manifest since
C15_Witness ==
    /\ run = "retry" /\ pc = "idle"
    /\ \E i, k \in JobIdx :
         /\ Jobs[i].status = FAILED /\ Jobs[i].retry_count > 0
         /\ Jobs[i].actual_cost # None
         /\ Jobs[k].status = SKIPPED /\ attempts[k] = 0

\* the manifest read back from the manifest.json written for the one in memory
C16_Reloaded == load_manifest(ManifestToJson(manifest))

C17_UpdateStatsIdempotent ==
    LET once == update_stats(manifest)
        twice == update_stats(once)
    IN /\ twice = once
       /\ once.total_jobs = Len(Jobs)
       /\ once.completed_jobs = Cardinality({i \in JobIdx : Jobs[i].status = COMPLETED})
       /\ once.failed_jobs = Cardinality({i \in JobIdx : Jobs[i].status = FAILED})
       /\ once.total_estimated_cost = SumCost(Jobs, "estimated_cost")
       /\ once.total_actual_cost = Spend(Jobs)
       /\ once.jobs = Jobs /\ once.budget_cap = manifest.budget_cap

\* the stored aggregates are stale (a job failed after it recorded a cost), so
\* the first update_stats changes them and the second has something to repeat
C17_Witness ==
    /\ update_stats(manifest) # manifest
    /\ manifest.total_actual_cost > 0
    /\ update_stats(manifest).total_actual_cost > manifest.total_actual_cost
    /\ update_stats(manifest).failed_jobs > manifest.failed_jobs

\* a line the input file contributes: trimmed, it is non-blank, does not start
\* with '#', and starts with 'http'
C18_IsUrlLine(line) ==
    LET t == strip(line)
    IN /\ t # <<>>
       /\ t[1] # "#"
       /\ Len(t) >= 4 /\ t[1] = "h" /\ t[2] = "t" /\ t[3] = "t" /\ t[4] = "p"

\* C18: for a plain-text input the job list is exactly the subsequence of the
\* lines that, trimmed, are non-blank, do not start with '#' and start with
\* 'http', in input order (each job's url being the trimmed line); the other
\* lines are dropped without an error; job i has the id
\* <batch id>_job_<i zero-padded to 3>, ids are pairwise distinct, and every job
\* starts PENDING.
C18_JobsAreTheUrlLines ==
    result # None =>
        LET jobs == result[1].jobs
            kept == SelectSeq(arg, C18_IsUrlLine)
        IN /\ Len(jobs) = Len(kept)
           /\ result[1].raised <=> (kept = <<>>)
           /\ \A i \in 1..Len(jobs) :
                /\ jobs[i].url = strip(kept[i])
                /\ jobs[i].status = PENDING
                /\ jobs[i].id = <<"batch", "_job_", 0, 0, i>>
           /\ \A i, k \in 1..Len(jobs) : i # k => jobs[i].id # jobs[k].id

\* a file of 3 lines whose middle line is dropped gave 2 jobs, the first from a
\* line with white space around the URL
C18_Witness ==
    /\ result # None /\ Len(arg) = 3
    /\ ~C18_IsUrlLine(arg[2]) /\ arg[2] # <<>>
    /\ arg[1] # strip(arg[1])
    /\ Len(result[1].jobs) = 2
    /\ result[1].jobs[1].url = strip(arg[1])
    /\ result[1].jobs[2].url = arg[3]

\* the words of a segment, read back from its space-joined text
C19_SegmentWords(segment) == SelectSeq(segment.text, LAMBDA t : t # " ")

RECURSIVE C19_AllWords(_)
\* the words of all segments, in segment order
C19_AllWords(segments) ==
    IF segments = <<>> THEN <<>>
    ELSE C19_SegmentWords(Head(segments)) \o C19_AllWords(Tail(segments))

\* C19: for a word sequence in which every word has a start and an end
\* timestamp (every end after 0), a first word starting at 0 included, the
\* segments are an order-preserving partition of the words: the segments' words,
\* concatenated,
\* are the input sequence (each word in exactly one segment), and each segment
\* text is its words joined by single spaces.
C19_SegmentsPartitionWords ==
    (result # None /\ \A i \in 1..Len(arg) : arg[i].end > 0) =>
        /\ C19_AllWords(result[1].segments) = [i \in 1..Len(arg) |-> arg[i].text]
        /\ \A k \in 1..Len(result[1].segments) :
             LET text == result[1].segments[k].text
             IN /\ Len(text) % 2 = 1
                /\ \A j \in 1..Len(text) : (text[j] = " ") <=> (j % 2 = 0)

\* C20: for a word sequence with non-decreasing timestamps no segment lasts
\* longer than max_duration (8), a segment holding a single word longer than
\* that included, and no SRT segment has more than max_words (10) words.
C20_SegmentsBounded ==
    result # None =>
        \A k \in 1..Len(result[1].segments) :
            LET segment == result[1].segments[k]
            IN /\ segment.end - segment.start <= MaxDuration
               /\ result[1].format = "srt" => Len(C19_SegmentWords(segment)) <= MaxWords

\* the process_batch call has returned its manifest (it was no dry run)
BatchReturned == run = "batch" /\ pc = "idle"

\* C21: after process_batch returns, a meta file has been written for every job
\* of the manifest: for COMPLETED jobs, for FAILED jobs and for SKIPPED jobs.
C21_MetaFileForEveryJob ==
    BatchReturned => \A i \in JobIdx : meta[i] # None

InProgressStatuses == {DOWNLOADING, CONVERTING, TRANSCRIBING, FORMATTING}

\* the number of jobs in one of the in-progress statuses
C22_InProgress(jobs) ==
    Cardinality({i \in 1..Len(jobs) : jobs[i].status \in InProgressStatuses})

\* C22: the final statistics of a batch in which the budget cut jobs off report
\* a skipped count equal to the number of SKIPPED jobs, and that count is
\* distinct from the completed, failed, pending and in-progress counts, each of
\* which counts the jobs of its own status only.
C22_SkippedCountReported ==
    (BatchReturned /\ CountStatus(Jobs, SKIPPED) > 0) =>
        LET stats == calculate_batch_stats(manifest)
        IN /\ stats.completed = CountStatus(Jobs, COMPLETED)
           /\ stats.failed = CountStatus(Jobs, FAILED)
           /\ stats.pending = CountStatus(Jobs, PENDING)
           /\ stats.in_progress = C22_InProgress(Jobs)
           /\ "skipped" \in DOMAIN stats
           /\ stats["skipped"] = CountStatus(Jobs, SKIPPED)

\* C23: a dry run of process_batch never reaches the download, convert or
\* transcribe call of the pipeline (no attempt is started, no temporary file
\* appears, no meta file is written); it only probes metadata, and every job
\* stays PENDING with no failure_reason and no actual_cost.
C23_DryRunOnlyProbes ==
    run = "dry" =>
        /\ pc \in {"dry", "idle"}
        /\ disk = {}
        /\ \A i \in JobIdx :
             /\ attempts[i] = 0
             /\ meta[i] = None
             /\ Jobs[i].status = PENDING
             /\ Jobs[i].failure_reason = None
             /\ Jobs[i].actual_cost = None
             /\ Jobs[i].started_at = None

\* a dry run over several jobs has returned, one job probed with success and
\* one whose probe failed, both with an estimate
C23_Witness ==
    /\ run = "dry" /\ pc = "idle"
    /\ \E i, k \in JobIdx :
         /\ Jobs[i].video_metadata # None /\ Jobs[i].estimated_cost # None
         /\ Jobs[k].video_metadata = None /\ Jobs[k].estimated_cost # None

RECURSIVE C24_Sum(_, _)
\* the sum of the per-URL cost estimates of the first k URLs, 120 standing for
\* the duration of a URL whose probe failed or gave no duration
C24_Sum(urls, k) ==
    IF k = 0 THEN 0
    ELSE C24_Sum(urls, k - 1)
            + _estimate_job_cost(IF urls[k] # None /\ urls[k][1].duration # None
                                 THEN urls[k][1].duration[1] ELSE 120)

\* C24: estimate_batch over n URLs probes the metadata of the first min(5, n)
\* URLs only, takes 120 as the duration of a sampled URL whose probe fails or
\* has no duration, and returns total_urls = n and estimated_cost =
\* n * (sum of the sampled estimates) / min(5, n); for n <= 5 that is the sum of
\* the per-URL estimates, and for n = 0 it returns zeros.
C24_EstimateSamplesFirstFive ==
    result # None =>
        LET n == Len(arg)
            k == IF n < 5 THEN n ELSE 5
            ret == result[1].ret
        IN /\ result[1].probed = 1..k
           /\ ret.total_urls = n
           /\ n = 0 => ret.estimated_cost.num = 0
           /\ n > 0 => ret.estimated_cost.num * k
                          = n * C24_Sum(arg, k) * ret.estimated_cost.den
           /\ (n > 0 /\ n <= 5) =>
                 ret.estimated_cost.num = C24_Sum(arg, n) * ret.estimated_cost.den

\* estimate_batch has returned for more than five URLs, one of the sampled
\* probes failed, one gave a duration, and a URL after the sample has metadata
C24_Witness ==
    /\ result # None /\ Len(arg) > 5
    /\ \E i, k \in 1..5 : arg[i] = None /\ arg[k] # None /\ arg[k][1].duration # None
    /\ arg[6] # None /\ arg[6][1].duration # None
    /\ result[1].ret.sample_size = 5

\* the recorded temporary files of a job
C25_Recorded(job) ==
    (IF job.temp_video_path # None THEN {job.temp_video_path[1]} ELSE {})
        \cup (IF job.temp_audio_path # None THEN {job.temp_audio_path[1]} ELSE {})

\* C25: when a pipeline attempt ends with the job COMPLETED or FAILED (at any
\* stage, or by an exception), with delete_temp set no temporary file recorded
\* on the job exists any more, and with delete_temp unset the attempt has
\* deleted no file.
C25_TempFilesCleaned ==
    [][ (InPipeline /\ manifest'.jobs[CurJob].status \in {COMPLETED, FAILED}) =>
            IF opts.delete_temp
            THEN C25_Recorded(manifest'.jobs[CurJob]) \cap disk' = {}
            ELSE disk \subseteq disk' ]_vars

\* C26: when no requested formatter succeeds for a job whose transcription
\* succeeded, the job ends FAILED with FORMAT_FAILED and is not counted in
\* completed_jobs, for every list of requested formats, the empty one included.
C26_NoFormatterSucceedsFails ==
    (result # None /\ \A k \in 1..Len(arg[1]) : ~arg[2][k]) =>
        /\ result[1].job.status = FAILED
        /\ result[1].job.failure_reason = Some(FORMAT_FAILED)
        /\ result[1].completed_jobs = 0

\* an error text that matches none of the classification patterns
C27_Unmatched(m) ==
    /\ ~Contains(m, PatPrivateVideo) /\ ~Contains(lower(m), PatPrivate)
    /\ ~Contains(lower(m), PatBlocked) /\ ~Contains(lower(m), PatAvailable)
    /\ ~Contains(m, PatInvalidUrl) /\ ~Contains(m, PatUnsupportedUrl)

\* every download error text is classified as one of the three download
\* reasons, and as DOWNLOAD_FAILED when it matches no pattern
C27_DownloadErrorsClassified ==
    \A m \in DownloadErrorTexts :
        /\ ClassifyDownloadError(m) \in {INVALID_URL, ACCESS_DENIED, DOWNLOAD_FAILED}
        /\ C27_Unmatched(m) => ClassifyDownloadError(m) = DOWNLOAD_FAILED

\* the reasons a failure at a position of the pipeline may give
C27_StageReasons ==
    [ start      |-> {},
      download   |-> {INVALID_URL, ACCESS_DENIED, DOWNLOAD_FAILED},
      convert    |-> {CONVERT_FAILED, UNKNOWN_ERROR},
      transcribe |-> {TRANSCRIPTION_FAILED},
      format     |-> {FORMAT_FAILED},
      save       |-> {UNKNOWN_ERROR} ]

\* C27: the reason of a FAILED job is given by the stage that failed: download
\* gives INVALID_URL, ACCESS_DENIED or DOWNLOAD_FAILED (DOWNLOAD_FAILED for an
\* error text that matches no pattern), conversion CONVERT_FAILED, transcription
\* TRANSCRIPTION_FAILED, formatting FORMAT_FAILED, an exception (mkdir in the
\* conversion stage, save_manifest after completion) UNKNOWN_ERROR; a FAILED job
\* never has BUDGET_EXCEEDED.
C27_ReasonByStage ==
    /\ [](C27_DownloadErrorsClassified)
    /\ [](\A i \in JobIdx :
            Jobs[i].status = FAILED =>
                Jobs[i].failure_reason \notin {None, Some(BUDGET_EXCEEDED)})
    /\ [][ (InPipeline /\ manifest'.jobs[CurJob].status = FAILED) =>
              /\ manifest'.jobs[CurJob].failure_reason # None
              /\ manifest'.jobs[CurJob].failure_reason[1] \in C27_StageReasons[pc] ]_vars

\* after a retry, two jobs are FAILED for different stages: one for a download
\* error and one with UNKNOWN_ERROR
C27_Witness ==
    /\ pc = "idle" /\ run = "retry"
    /\ \E i, k \in JobIdx :
         /\ Jobs[i].status = FAILED /\ Jobs[i].failure_reason = Some(DOWNLOAD_FAILED)
         /\ Jobs[k].status = FAILED /\ Jobs[k].failure_reason = Some(UNKNOWN_ERROR)

Terminal == {COMPLETED, FAILED, SKIPPED}

\* C28: every job in a terminal status (COMPLETED, FAILED, SKIPPED) has
\* completed_at set, and every job that has left PENDING has started_at set.
C28_TimestampsSet ==
    \A i \in JobIdx :
        /\ Jobs[i].status \in Terminal => Jobs[i].completed_at # None
        /\ Jobs[i].status # PENDING => Jobs[i].started_at # None

\* the status a job has while the pipeline is at a position
C29_StageStatus ==
    [ download   |-> DOWNLOADING,
      convert    |-> CONVERTING,
      transcribe |-> TRANSCRIBING,
      format     |-> FORMATTING ]

\* C29: within one attempt, a failed stage gives the job FAILED and ends the
\* attempt (the loop goes on with the next job), so an adapter of a later stage
\* is called only for a job every earlier stage of which succeeded: at the
\* download, convert, transcribe and format calls the job is DOWNLOADING,
\* CONVERTING, TRANSCRIBING and FORMATTING; the metadata probe, failed or not,
\* is always followed by the download call.
C29_FailedStageEndsAttempt ==
    /\ [](pc \in DOMAIN C29_StageStatus => Jobs[CurJob].status = C29_StageStatus[pc])
    /\ [][ (InPipeline /\ manifest'.jobs[CurJob].status = FAILED) =>
              (pc' = "loop" /\ cur' = cur + 1) ]_vars
    /\ [][ pc = "start" =>
              (pc' = "download" /\ manifest'.jobs[CurJob].status = DOWNLOADING) ]_vars

\* the download call is reached after a failed metadata probe, and later a
\* transcription of a later job fails after an earlier job failed at conversion
C29_Witness ==
    /\ pc = "loop" /\ cur > 2
    /\ Jobs[todo[1]].status = FAILED
    /\ Jobs[todo[1]].failure_reason = Some(CONVERT_FAILED)
    /\ Jobs[todo[2]].status = FAILED
    /\ Jobs[todo[2]].failure_reason = Some(TRANSCRIPTION_FAILED)
    /\ Jobs[todo[2]].video_metadata = None

\* C30: at every point of a process_batch or retry_failed_jobs run at most one
\* job is in an in-progress status, and in process_batch a job leaves PENDING
\* only when every job before it in manifest order is in a terminal status.
C30_OneJobAtATime ==
    /\ [](C22_InProgress(Jobs) <= 1)
    /\ [][ run = "batch" =>
              \A k \in JobIdx :
                  (Jobs[k].status = PENDING /\ manifest'.jobs[k].status # PENDING) =>
                      \A j \in 1..(k - 1) : manifest'.jobs[j].status \in Terminal ]_vars

\* the third job of a batch is in progress after the first failed and the
\* second completed
C30_Witness ==
    /\ run = "batch" /\ Len(Jobs) = 3
    /\ Jobs[1].status = FAILED /\ Jobs[2].status = COMPLETED
    /\ Jobs[3].status = TRANSCRIBING

\* the budget test of process_batch trips at the job the loop is at
C31_CutoffTrips ==
    /\ run = "batch" /\ pc = "loop" /\ cur <= Len(todo)
    /\ BudgetReached(manifest.total_actual_cost, budget)

\* C31: when the budget cutoff trips in process_batch, the marking step changes
\* only jobs at or after the current position whose status is PENDING, which
\* become SKIPPED; every other job, the COMPLETED and FAILED ones in
\* particular, keeps its status, failure_reason, error_message and costs (the
\* whole job record is unchanged).
C31_CutoffChangesOnlyPending ==
    [][ C31_CutoffTrips =>
          \A i \in JobIdx :
              IF i >= CurJob /\ Jobs[i].status = PENDING
              THEN manifest'.jobs[i].status = SKIPPED
              ELSE manifest'.jobs[i] = Jobs[i] ]_vars

\* the cutoff has tripped at the third job after a job FAILED with a recorded
\* cost and a job COMPLETED
C31_Witness ==
    /\ run = "batch" /\ pc = "final" /\ Len(Jobs) = 3
    /\ Jobs[1].status = FAILED /\ Jobs[1].actual_cost # None
    /\ Jobs[2].status = COMPLETED
    /\ Jobs[3].status = SKIPPED

\* C33: the budget_cap of a manifest is not modified by process_batch after it
\* created the manifest, by the per-job pipeline, by the budget cutoff, or by
\* retry_failed_jobs, whatever budget the retry is given.
C33_BudgetCapUnchanged ==
    [][ run # "none" => manifest'.budget_cap = manifest.budget_cap ]_vars

\* a retry runs with a budget other than the cap the manifest records, after
\* the cutoff tripped in the batch
C33_Witness ==
    /\ run = "retry" /\ InPipeline
    /\ budget # manifest.budget_cap
    /\ \E i \in JobIdx : Jobs[i].status = SKIPPED

\* C35: once a job is COMPLETED its status never changes again, whatever
\* happens later in the run, a save_manifest that fails right after the job
\* completed included.
C35_CompletedIsFinal ==
    [][ \A i \in JobIdx :
            Jobs[i].status = COMPLETED => manifest'.jobs[i].status = COMPLETED ]_vars

\* C36: at every budget check (before each job of process_batch, before each
\* retried job of retry_failed_jobs) the total_actual_cost compared with the cap
\* is the sum of actual_cost over all jobs at that moment.
C36_CheckedTotalIsCurrent ==
    (pc = "loop" /\ cur <= Len(todo)) => manifest.total_actual_cost = Spend(Jobs)

\* C37: every manifest snapshot written by save_manifest has aggregates
\* consistent with its own job list: total_jobs is the number of jobs,
\* completed_jobs and failed_jobs count the COMPLETED and FAILED jobs,
\* total_actual_cost and total_estimated_cost are the sums over the jobs.
C37_SnapshotConsistent ==
    /\ saved.total_jobs = Len(saved.jobs)
    /\ saved.completed_jobs = CountStatus(saved.jobs, COMPLETED)
    /\ saved.failed_jobs = CountStatus(saved.jobs, FAILED)
    /\ saved.total_actual_cost = SumCost(saved.jobs, "actual_cost")
    /\ saved.total_estimated_cost = SumCost(saved.jobs, "estimated_cost")

\* a snapshot written during a retry holds a COMPLETED job, a FAILED job that
\* has a recorded cost, and a retried job
C37_Witness ==
    /\ run = "retry"
    /\ \E i, k \in 1..Len(saved.jobs) :
         /\ saved.jobs[i].status = COMPLETED /\ saved.jobs[i].retry_count > 0
         /\ saved.jobs[k].status = FAILED /\ saved.jobs[k].actual_cost # None

\* C38: the meta file last written for a job records the job's final status:
\* COMPLETED for a job that ended COMPLETED, FAILED for a job that ended FAILED.
C38_MetaFileHasFinalStatus ==
    (pc = "idle" /\ run \in {"batch", "retry"}) =>
        \A i \in JobIdx :
            Jobs[i].status \in {COMPLETED, FAILED} => meta[i] = Some(Jobs[i].status)

\* C39: the budget enforced by the cutoff check is the budget_cap recorded in
\* the manifest, in process_batch for every options.budget_cap (0 included) and
\* in retry_failed_jobs for every budget argument (0 or none included).
C39_EnforcedBudgetIsRecordedCap ==
    (pc = "loop" /\ cur <= Len(todo)) => budget = manifest.budget_cap

\* C32: cost estimation is a deterministic function of the duration that makes
\* no adapter call, and accounting uses the same formula: for a known duration
\* d the actual_cost recorded for the job and the estimated_cost of a dry run
\* are both _estimate_job_cost(d); _estimate_job_time is just as pure: it makes
\* no adapter call and its result is fixed by the duration.
C32_EstimatesArePure ==
    result # None =>
        /\ result[1].cost_calls = <<>>
        /\ result[1].actual = Some(result[1].cost)
        /\ result[1].dry_run = Some(result[1].cost)
        /\ result[1].time_calls = <<>>
        /\ result[1].time = _estimate_job_time(arg.duration, None)

\* C34: wait_for_transcription always terminates: it returns success when the
\* remote status becomes completed, failure when it becomes error, and failure
\* once max_wait_time has elapsed, even if the remote stays queued or
\* processing, reports an unknown status, or every poll raises.
C34_WaitTerminates ==
    /\ <>(result # None)
    /\ [](result # None =>
            /\ result[1].success <=> arg.last = "completed"
            /\ ~result[1].success =>
                  \/ arg.last = "error"
                  \/ (result[1].timed_out /\ arg.elapsed >= arg.max_wait_time))
    /\ [](result = None => arg.last \notin {"completed", "error"})

\* the call has returned failure by timeout after the full default wait, its
\* last poll having raised
C34_Witness ==
    /\ result # None /\ result[1].timed_out
    /\ arg.max_wait_time = DefaultMaxWaitTime
    /\ arg.last = "raises"

\* an input file that yields no valid URL: it cannot be read, it is a CSV file
\* without a 'url' column (an empty one included), or none of its lines or url
\* cells is an http URL
C40_NoValidUrl(file) ==
    \/ ~file.readable
    \/ ~file.csv /\ \A k \in 1..Len(file.lines) : ~C18_IsUrlLine(file.lines[k])
    \/ file.csv /\ \/ file.fieldnames = None
                   \/ "url" \notin Range(file.fieldnames[1])
                   \/ \A k \in 1..Len(file.rows) :
                         file.rows[k] # None /\ ~C18_IsUrlLine(file.rows[k][1])

\* C40: on an input that yields zero valid URLs (an empty file, only invalid
\* lines, an unreadable file, a CSV without a 'url' column) process_batch fails
\* with an error before a manifest is created or saved and before any job
\* exists, whereas estimate_batch on the same input returns a zero estimate
\* without an error and probes nothing.
C40_EmptyInputRefused ==
    (result # None /\ C40_NoValidUrl(arg)) =>
        /\ result[1].process_batch.raised
        /\ ~result[1].process_batch.manifest_created
        /\ ~result[1].process_batch.manifest_saved
        /\ result[1].process_batch.jobs = <<>>
        /\ result[1].estimate_batch.ret.total_urls = 0
        /\ result[1].estimate_batch.ret.estimated_cost.num = 0
        /\ result[1].estimate_batch.probed = {}

\* both calls have returned for a readable CSV file that has rows with URLs and
\* no 'url' column
C40_Witness ==
    /\ result # None
    /\ arg.csv /\ arg.readable /\ arg.fieldnames = Some(<<"id">>)
    /\ Len(arg.rows) = 2 /\ arg.rows[1] # None /\ C18_IsUrlLine(arg.rows[1][1])
    /\ result[1].process_batch.raised

=============================================================================
